---- MODULE Spec2Model ----
(***************************************************************************)
(* sendtx.js: rate-paced, concurrency-bounded submission of transfers.     *)
(*                                                                         *)
(* Time is counted in milliseconds.  The duration option of the program    *)
(* is in seconds; the model holds it multiplied by MsPerSec so that        *)
(* fractions of a second stay integers.  The clock moves in steps of one   *)
(* Quantum.                                                                *)
(***************************************************************************)
EXTENDS Integers, Sequences, FiniteSets, TLC

\* ---- bounds of the model ----
MaxTotalTxs == 2
MaxReorgs == 1
MaxConcurrency == 2
MaxStallQuanta == 2

\* ---- program constants ----
Undefined == -1
MsPerSec == 1000

Quantum == MsPerSec \div 2

Durations == {Undefined, 0, Quantum, MsPerSec}
TotalTxsValues == {Undefined} \cup (0..MaxTotalTxs)
TpsValues == {1, 2}
ConcurrencyValues == 1..MaxConcurrency
LedgerNonces == {5}

CeilDiv(a, b) == (a + b - 1) \div b

Max(a, b) == IF a >= b THEN a ELSE b

MaxPlanned == Max(MaxTotalTxs, CeilDiv(MsPerSec * 2, MsPerSec))

Tasks == 0..(MaxPlanned - 1)

VARIABLES
    pc,            \* position of the main async function
    argv,          \* parsed options
    connected,     \* the ApiPromise connection is open
    ledgerNext,    \* the ledger's next index for the sender account
    currentNonce,  \* local nonce cursor
    sent, succeeded, failed,
    activeCount,   \* p-limit: tasks running
    queue,         \* p-limit: tasks waiting, in order of arrival
    plannedTotal, startTime, index, nextTime,
    now,           \* Date.now()
    st,            \* per task: position of sendOne(i)
    outcome,       \* per task: settlement of the promise of sendOne(i)
    nonce,         \* per task: nonceForThis
    txStatus,      \* per task: result.status of the last callback
    reorgs,        \* number of retractions the ledger has reported
    summary,       \* the counters as printed
    collect,       \* collect.js: the statistics table and its formatted output
    link           \* link-node-names.js: the probes and the result list

conf == <<argv, collect, link>>
counters == <<sent, succeeded, failed>>
limiter == <<activeCount, queue>>
sched == <<plannedTotal, startTime, index, nextTime>>
taskv == <<st, outcome, nonce, txStatus, reorgs>>
vars == <<pc, argv, connected, ledgerNext, currentNonce, sent, succeeded,
          failed, activeCount, queue, plannedTotal, startTime, index,
          nextTime, now, st, outcome, nonce, txStatus, reorgs, summary,
          collect, link>>

\* JavaScript truthiness of an optional number
Truthy(x) == x # Undefined /\ x # 0

\* positions at which the main function is suspended in an await
AwaitPcs == {"sleeping", "drain", "disconnect"}

\* positions of the timing loop at which the clock is read
SyncPcs == {"loopTop", "loopCheck"}

NoSummary == [attempted |-> Undefined, sent |-> Undefined,
              succeeded |-> Undefined, failed |-> Undefined]

ArgvValues == [duration : Durations, totalTxs : TotalTxsValues,
               tps : TpsValues, concurrency : ConcurrencyValues,
               nonceAuto : BOOLEAN]

\* collect.js has not run
CollectIdle == [phase |-> "idle"]

\* link-node-names.js has not run
LinkIdle == [phase |-> "idle"]

\* sendtx.js before its first statement, with options drawn from A
SendtxInit(A) ==
    /\ pc = "start"
    /\ argv \in A
    /\ connected = FALSE
    /\ ledgerNext \in LedgerNonces
    /\ currentNonce = Undefined
    /\ sent = 0 /\ succeeded = 0 /\ failed = 0
    /\ activeCount = 0 /\ queue = <<>>
    /\ plannedTotal = Undefined /\ startTime = 0 /\ index = 0 /\ nextTime = 0
    /\ now = 0
    /\ st = [i \in Tasks |-> "unissued"]
    /\ outcome = [i \in Tasks |-> "pending"]
    /\ nonce = [i \in Tasks |-> Undefined]
    /\ reorgs = 0
    /\ txStatus = [i \in Tasks |-> "none"]
    /\ summary = NoSummary

Init == SendtxInit(ArgvValues) /\ collect = CollectIdle /\ link = LinkIdle

\* ---- startup ----

\* the two checks of the duration / totalTxs options
ArgsRejected(a) ==
    \/ (~Truthy(a.duration) /\ ~Truthy(a.totalTxs))
    \/ (Truthy(a.duration) /\ Truthy(a.totalTxs))

Validate ==
    /\ pc = "start"
    /\ pc' = IF ArgsRejected(argv) THEN "exit1" ELSE "connect"
    /\ UNCHANGED <<conf, connected, ledgerNext, currentNonce, counters,
                   limiter, sched, now, taskv, summary>>

Connect ==
    /\ pc = "connect"
    /\ \/ pc' = "nonceInit" /\ connected' = TRUE
       \/ pc' = "exit1" /\ connected' = FALSE
    /\ UNCHANGED <<conf, ledgerNext, currentNonce, counters, limiter, sched,
                   now, taskv, summary>>

\* variant: the account is read at startup in both modes
NonceInitAlways ==
    /\ pc = "nonceInit"
    /\ \/ pc' = "plan" /\ currentNonce' = ledgerNext
       \/ pc' = "exit1" /\ currentNonce' = currentNonce
    /\ UNCHANGED <<conf, connected, ledgerNext, counters, limiter, sched,
                   now, taskv, summary>>

\* the startup read of the account nonce, in auto mode only
NonceInit ==
    /\ pc = "nonceInit"
    /\ IF argv.nonceAuto
       THEN \/ pc' = "plan" /\ currentNonce' = ledgerNext
            \/ pc' = "exit1" /\ currentNonce' = currentNonce
       ELSE pc' = "plan" /\ currentNonce' = currentNonce
    /\ UNCHANGED <<conf, connected, ledgerNext, counters, limiter, sched,
                   now, taskv, summary>>

\* ---- scheduler ----

\* 1000 / tps
intervalMs(a) == MsPerSec \div a.tps

\* totalTxs ?? Math.ceil(duration * tps); duration is held in milliseconds
PlannedTotalOf(a) ==
    IF a.totalTxs # Undefined
    THEN a.totalTxs
    ELSE CeilDiv(a.duration * a.tps, MsPerSec)

Plan ==
    /\ pc = "plan"
    /\ plannedTotal' = PlannedTotalOf(argv)
    /\ startTime' = now
    /\ index' = 0
    /\ pc' = "enterLoop"
    /\ UNCHANGED <<conf, connected, ledgerNext, currentNonce, counters,
                   limiter, nextTime, now, taskv, summary>>

EnterLoop ==
    /\ pc = "enterLoop"
    /\ nextTime' = now
    /\ pc' = "loopTop"
    /\ UNCHANGED <<conf, connected, ledgerNext, currentNonce, counters,
                   limiter, plannedTotal, startTime, index, now, taskv,
                   summary>>

\* variant: the guard on the planned total is lost
MayIssueAlways == TRUE

\* the guard of the while loop and of scheduleTick
MayIssue == index < plannedTotal

\* scheduleTick: take the next index and hand the task to the limiter
scheduleTick ==
    /\ MayIssue
    /\ index' = index + 1
    /\ queue' = Append(queue, index)
    /\ st' = [st EXCEPT ![index] = "queued"]

\* variant: a pass issues without waiting for the target time
LoopTopBurst ==
    /\ pc = "loopTop"
    /\ IF ~MayIssue
       THEN /\ pc' = "drain"
            /\ UNCHANGED <<index, queue, st, nextTime>>
       ELSE /\ scheduleTick
            /\ nextTime' = nextTime + intervalMs(argv)
            /\ pc' = "loopCheck"
    /\ UNCHANGED <<conf, connected, ledgerNext, currentNonce, counters,
                   activeCount, plannedTotal, startTime, now, outcome,
                   nonce, txStatus, reorgs, summary>>

\* one pass of the while loop up to the duration check
LoopTop ==
    /\ pc = "loopTop"
    /\ IF ~MayIssue
       THEN /\ pc' = "drain"
            /\ UNCHANGED <<index, queue, st, nextTime>>
       ELSE IF now >= nextTime
            THEN /\ scheduleTick
                 /\ nextTime' = nextTime + intervalMs(argv)
                 /\ pc' = "loopCheck"
            ELSE /\ pc' = "sleeping"
                 /\ UNCHANGED <<index, queue, st, nextTime>>
    /\ UNCHANGED <<conf, connected, ledgerNext, currentNonce, counters,
                   activeCount, plannedTotal, startTime, now, outcome,
                   nonce, txStatus, reorgs, summary>>

\* variant: the limiter starts a waiting task whatever the running count
StartPendingUnbounded == queue # <<>>

\* the limiter has a task it can start: its microtask runs before any event
StartPending == queue # <<>> /\ activeCount < argv.concurrency

\* variant: the timer fires but the clock has not reached the target
WakeNoAdvance ==
    /\ pc = "sleeping"
    /\ ~StartPending
    /\ now' = now
    /\ pc' = "loopCheck"
    /\ UNCHANGED <<conf, connected, ledgerNext, currentNonce, counters,
                   limiter, sched, taskv, summary>>

\* the timer of the sleep fires at the target time (a late timer is this
\* step followed by Tick)
Wake ==
    /\ pc = "sleeping"
    /\ ~StartPending
    /\ now' = Max(now, nextTime)
    /\ pc' = "loopCheck"
    /\ UNCHANGED <<conf, connected, ledgerNext, currentNonce, counters,
                   limiter, sched, taskv, summary>>

\* variant: the check does not ask whether a duration was given
DurationReachedAlways == now - startTime >= argv.duration

\* the duration check at the end of a pass
DurationReached == Truthy(argv.duration) /\ now - startTime >= argv.duration

\* variant: the loop is left after the first pass
LoopCheckBreaks ==
    /\ pc = "loopCheck"
    /\ pc' = "drain"
    /\ UNCHANGED <<conf, connected, ledgerNext, currentNonce, counters,
                   limiter, sched, now, taskv, summary>>

LoopCheck ==
    /\ pc = "loopCheck"
    /\ pc' = IF DurationReached THEN "drain" ELSE "loopTop"
    /\ UNCHANGED <<conf, connected, ledgerNext, currentNonce, counters,
                   limiter, sched, now, taskv, summary>>

\* the clock advances between two readings of the timing loop
Tick ==
    /\ pc \in SyncPcs
    /\ now < MaxStallQuanta * Quantum
    /\ now' = now + Quantum
    /\ UNCHANGED <<pc, conf, connected, ledgerNext, currentNonce, counters,
                   limiter, sched, taskv, summary>>

\* Promise.allSettled(promises), then the summary
AllSettled == \A i \in Tasks : i < index => outcome[i] # "pending"

\* variant: the summary does not wait for the outstanding promises
DrainReadyNoWait == pc = "drain"

\* the continuation of Promise.allSettled is due
DrainReady == pc = "drain" /\ AllSettled

\* variant: the summary waits for the started tasks only
DrainStartedOnly ==
    /\ pc = "drain"
    /\ \A i \in Tasks : st[i] \notin {"unissued", "queued"} => outcome[i] # "pending"
    /\ summary' = [attempted |-> index, sent |-> sent,
                   succeeded |-> succeeded, failed |-> failed]
    /\ pc' = "disconnect"
    /\ UNCHANGED <<conf, connected, ledgerNext, currentNonce, counters,
                   limiter, sched, now, taskv>>

\* the continuation of Promise.allSettled: the summary
Drain ==
    /\ DrainReady
    /\ ~StartPending
    /\ summary' = [attempted |-> index, sent |-> sent,
                   succeeded |-> succeeded, failed |-> failed]
    /\ pc' = "disconnect"
    /\ UNCHANGED <<conf, connected, ledgerNext, currentNonce, counters,
                   limiter, sched, now, taskv>>

Disconnect ==
    /\ pc = "disconnect"
    /\ connected' = FALSE
    /\ pc' = "exit0"
    /\ UNCHANGED <<conf, ledgerNext, currentNonce, counters, limiter, sched,
                   now, taskv, summary>>

\* ---- submission worker ----

ErrorOutcomes == {"nonceErr", "buildErr", "submitErr", "txError"}

\* variant: the limiter keeps the slot of a settled task
SettleNoRelease(i, o) ==
    IF outcome[i] = "pending"
    THEN /\ outcome' = [outcome EXCEPT ![i] = o]
         /\ activeCount' = activeCount
    ELSE UNCHANGED <<outcome, activeCount>>

\* resolve / reject of the promise of sendOne(i): only the first call
\* settles it, and the limiter then gives the slot back
Settle(i, o) ==
    IF outcome[i] = "pending"
    THEN /\ outcome' = [outcome EXCEPT ![i] = o]
         /\ activeCount' = activeCount - 1
    ELSE UNCHANGED <<outcome, activeCount>>

CountFailed == failed' = failed + 1 /\ sent' = sent + 1 /\ succeeded' = succeeded

\* variant: an inclusion is not counted as sent
CountSucceededOnly == succeeded' = succeeded + 1 /\ sent' = sent /\ failed' = failed

\* succeeded++; sent++
CountSucceeded == succeeded' = succeeded + 1 /\ sent' = sent + 1 /\ failed' = failed

\* variant: the cursor is read but not advanced
NextNonceStuck == currentNonce

\* currentNonce++
NextNonce == currentNonce + 1

\* variant: a throwing build is counted and the operation is sent anyway
BuildAndSendAnyway(i, active) ==
    \/ /\ st' = [st EXCEPT ![i] = "submitting"]
       /\ outcome' = [outcome EXCEPT ![i] = "buildErr"]
       /\ activeCount' = active - 1
       /\ CountFailed
    \/ /\ st' = [st EXCEPT ![i] = "submitting"]
       /\ activeCount' = active
       /\ UNCHANGED <<outcome, counters>>

\* the synchronous rest of sendOne(i) after the nonce is known: the build
\* throws (catch block), or signAndSend is called
BuildAndSend(i, active) ==
    \/ /\ st' = [st EXCEPT ![i] = "closed"]
       /\ outcome' = [outcome EXCEPT ![i] = "buildErr"]
       /\ activeCount' = active - 1
       /\ CountFailed
    \/ /\ st' = [st EXCEPT ![i] = "submitting"]
       /\ activeCount' = active
       /\ UNCHANGED <<outcome, counters>>

\* variant: in auto mode each worker takes the ledger's next index
LimiterStartReread ==
    /\ pc \in AwaitPcs
    /\ StartPending
    /\ LET i == Head(queue) IN
       /\ queue' = Tail(queue)
       /\ IF argv.nonceAuto
          THEN /\ nonce' = [nonce EXCEPT ![i] = ledgerNext]
               /\ currentNonce' = NextNonce
               /\ BuildAndSend(i, activeCount + 1)
          ELSE /\ st' = [st EXCEPT ![i] = "nonceWait"]
               /\ activeCount' = activeCount + 1
               /\ UNCHANGED <<nonce, currentNonce, outcome, counters>>
    /\ UNCHANGED <<pc, conf, connected, ledgerNext, sched, now,
                   txStatus, reorgs, summary>>

\* the limiter starts the task at the head of its queue
LimiterStart ==
    /\ pc \in AwaitPcs
    /\ StartPending
    /\ LET i == Head(queue) IN
       /\ queue' = Tail(queue)
       /\ IF argv.nonceAuto
          THEN /\ nonce' = [nonce EXCEPT ![i] = currentNonce]
               /\ currentNonce' = NextNonce
               /\ BuildAndSend(i, activeCount + 1)
          ELSE /\ st' = [st EXCEPT ![i] = "nonceWait"]
               /\ activeCount' = activeCount + 1
               /\ UNCHANGED <<nonce, currentNonce, outcome, counters>>
    /\ UNCHANGED <<pc, conf, connected, ledgerNext, sched, now,
                   txStatus, reorgs, summary>>

\* events reach the program only while the main function is suspended and
\* no microtask (a start by the limiter, the continuation of the drain)
\* is left
EventTurn == pc \in AwaitPcs /\ ~StartPending /\ ~DrainReady

\* variant: a failed nonce query ends the process
NonceReplyFatal(i) ==
    /\ EventTurn
    /\ st[i] = "nonceWait"
    /\ \/ /\ nonce' = [nonce EXCEPT ![i] = ledgerNext]
          /\ BuildAndSend(i, activeCount)
          /\ pc' = pc
       \/ /\ st' = [st EXCEPT ![i] = "closed"]
          /\ outcome' = [outcome EXCEPT ![i] = "nonceErr"]
          /\ activeCount' = activeCount - 1
          /\ CountFailed
          /\ pc' = "exit1"
          /\ UNCHANGED nonce
    /\ UNCHANGED <<conf, connected, ledgerNext, currentNonce, queue,
                   sched, now, txStatus, reorgs, summary>>

\* accountNextIndex answers, or fails
NonceReply(i) ==
    /\ EventTurn
    /\ st[i] = "nonceWait"
    /\ \/ /\ nonce' = [nonce EXCEPT ![i] = ledgerNext]
          /\ BuildAndSend(i, activeCount)
       \/ /\ st' = [st EXCEPT ![i] = "closed"]
          /\ outcome' = [outcome EXCEPT ![i] = "nonceErr"]
          /\ activeCount' = activeCount - 1
          /\ CountFailed
          /\ UNCHANGED nonce
    /\ UNCHANGED <<pc, conf, connected, ledgerNext, currentNonce, queue,
                   sched, now, txStatus, reorgs, summary>>

\* variant: the slot is given back once the operation is submitted
SubmitOkReleases(i) ==
    /\ EventTurn
    /\ st[i] = "submitting"
    /\ st' = [st EXCEPT ![i] = "watching"]
    /\ ledgerNext' = Max(ledgerNext, nonce[i] + 1)
    /\ activeCount' = activeCount - 1
    /\ UNCHANGED <<pc, conf, connected, currentNonce, counters, queue,
                   sched, now, outcome, nonce, txStatus, reorgs, summary>>

\* signAndSend resolves: the operation is in the pool and is being watched
SubmitOk(i) ==
    /\ EventTurn
    /\ st[i] = "submitting"
    /\ st' = [st EXCEPT ![i] = "watching"]
    /\ ledgerNext' = Max(ledgerNext, nonce[i] + 1)
    /\ UNCHANGED <<pc, conf, connected, currentNonce, counters, limiter,
                   sched, now, outcome, nonce, txStatus, reorgs, summary>>

\* variant: the rejection is not handled and ends the process
SubmitFailFatal(i) ==
    /\ EventTurn
    /\ st[i] = "submitting"
    /\ st' = [st EXCEPT ![i] = "closed"]
    /\ CountFailed
    /\ Settle(i, "submitErr")
    /\ pc' = "exit1"
    /\ UNCHANGED <<conf, connected, ledgerNext, currentNonce, queue,
                   sched, now, nonce, txStatus, reorgs, summary>>

\* signAndSend rejects: the .catch handler
SubmitFail(i) ==
    /\ EventTurn
    /\ st[i] = "submitting"
    /\ st' = [st EXCEPT ![i] = "closed"]
    /\ CountFailed
    /\ Settle(i, "submitErr")
    /\ UNCHANGED <<pc, conf, connected, ledgerNext, currentNonce, queue,
                   sched, now, nonce, txStatus, reorgs, summary>>

\* the status callback of task i is called with status s
Deliver(i, s) == txStatus' = [txStatus EXCEPT ![i] = s]

CanDeliver(i) == EventTurn /\ st[i] = "watching"

\* status callback: ready / broadcast, none of the three branches
EvReady(i) ==
    /\ CanDeliver(i)
    /\ txStatus[i] = "none"
    /\ Deliver(i, "ready")
    /\ UNCHANGED <<pc, conf, connected, ledgerNext, currentNonce, counters,
                   limiter, sched, now, st, outcome, nonce, reorgs, summary>>

\* status callback: retracted (the block of the operation left the chain),
\* none of the three branches
EvRetracted(i) ==
    /\ CanDeliver(i)
    /\ txStatus[i] = "inBlock"
    /\ reorgs < MaxReorgs
    /\ reorgs' = reorgs + 1
    /\ Deliver(i, "retracted")
    /\ UNCHANGED <<pc, conf, connected, ledgerNext, currentNonce, counters,
                   limiter, sched, now, st, outcome, nonce, summary>>

\* variant: inclusion is counted but the promise waits for finality
EvInBlockNoResolve(i) ==
    /\ CanDeliver(i)
    /\ txStatus[i] \in {"none", "ready", "retracted"}
    /\ Deliver(i, "inBlock")
    /\ CountSucceeded
    /\ UNCHANGED <<pc, conf, connected, ledgerNext, currentNonce, limiter,
                   sched, now, st, outcome, nonce, reorgs, summary>>

\* status callback: result.status.isInBlock (again after a retraction)
EvInBlock(i) ==
    /\ CanDeliver(i)
    /\ txStatus[i] \in {"none", "ready", "retracted"}
    /\ Deliver(i, "inBlock")
    /\ CountSucceeded
    /\ Settle(i, "inBlock")
    /\ UNCHANGED <<pc, conf, connected, ledgerNext, currentNonce, queue,
                   sched, now, st, nonce, reorgs, summary>>

\* variant: on finality the cursor is set to the ledger's next index
EvFinalizedResync(i) ==
    /\ CanDeliver(i)
    /\ txStatus[i] = "inBlock"
    /\ Deliver(i, "finalized")
    /\ st' = [st EXCEPT ![i] = "closed"]
    /\ currentNonce' = IF argv.nonceAuto THEN ledgerNext ELSE currentNonce
    /\ UNCHANGED <<pc, conf, connected, ledgerNext, counters,
                   limiter, sched, now, outcome, nonce, reorgs, summary>>

\* status callback: result.status.isFinalized; the stream ends
EvFinalized(i) ==
    /\ CanDeliver(i)
    /\ txStatus[i] = "inBlock"
    /\ Deliver(i, "finalized")
    /\ st' = [st EXCEPT ![i] = "closed"]
    /\ UNCHANGED <<pc, conf, connected, ledgerNext, currentNonce, counters,
                   limiter, sched, now, outcome, nonce, reorgs, summary>>

\* variant: the rejection settles the promise but the slot is kept
EvErrorKeepsSlot(i) ==
    /\ CanDeliver(i)
    /\ Deliver(i, "error")
    /\ st' = [st EXCEPT ![i] = "closed"]
    /\ CountFailed
    /\ outcome' = [outcome EXCEPT ![i] =
                      IF outcome[i] = "pending" THEN "txError" ELSE outcome[i]]
    /\ activeCount' = activeCount
    /\ UNCHANGED <<pc, conf, connected, ledgerNext, currentNonce, queue,
                   sched, now, nonce, reorgs, summary>>

\* status callback: result.isError (dropped, invalid, usurped, finality
\* timeout); the stream ends
EvError(i) ==
    /\ CanDeliver(i)
    /\ Deliver(i, "error")
    /\ st' = [st EXCEPT ![i] = "closed"]
    /\ CountFailed
    /\ Settle(i, "txError")
    /\ UNCHANGED <<pc, conf, connected, ledgerNext, currentNonce, queue,
                   sched, now, nonce, reorgs, summary>>

\* variant: the end of the stream rejects the promise
EvStreamEndRejects(i) ==
    /\ CanDeliver(i)
    /\ outcome[i] = "pending"
    /\ st' = [st EXCEPT ![i] = "closed"]
    /\ CountFailed
    /\ Settle(i, "txError")
    /\ UNCHANGED <<pc, conf, connected, ledgerNext, currentNonce, queue,
                   sched, now, nonce, txStatus, reorgs, summary>>

\* the status stream of a pending task ends with no further callback (the
\* connection drops): no handler runs
EvStreamEnd(i) ==
    /\ CanDeliver(i)
    /\ outcome[i] = "pending"
    /\ st' = [st EXCEPT ![i] = "closed"]
    /\ UNCHANGED <<pc, conf, connected, ledgerNext, currentNonce, counters,
                   limiter, sched, now, outcome, nonce, txStatus, reorgs,
                   summary>>

Next ==
    \/ Validate
    \/ Connect
    \/ NonceInit
    \/ Plan
    \/ EnterLoop
    \/ LoopTop
    \/ Wake
    \/ LoopCheck
    \/ Tick
    \/ Drain
    \/ Disconnect
    \/ LimiterStart
    \/ \E i \in Tasks : NonceReply(i)
    \/ \E i \in Tasks : SubmitOk(i)
    \/ \E i \in Tasks : SubmitFail(i)
    \/ \E i \in Tasks : EvReady(i)
    \/ \E i \in Tasks : EvRetracted(i)
    \/ \E i \in Tasks : EvInBlock(i)
    \/ \E i \in Tasks : EvFinalized(i)
    \/ \E i \in Tasks : EvError(i)
    \/ \E i \in Tasks : EvStreamEnd(i)

Spec == Init /\ [][Next]_vars

TypeOK ==
    /\ pc \in {"start", "connect", "nonceInit", "plan", "enterLoop",
               "loopTop", "sleeping", "loopCheck", "drain", "disconnect",
               "exit0", "exit1", "killed"}
    /\ index \in 0..MaxPlanned
    /\ activeCount \in 0..MaxConcurrency
    /\ reorgs \in 0..MaxReorgs

\* ---- fair scheduling ----

\* the steps of the main function and of the limiter: JavaScript runs
\* synchronous code and due microtasks to completion, and a timer fires
MainStep ==
    \/ Validate
    \/ Connect
    \/ NonceInit
    \/ Plan
    \/ EnterLoop
    \/ LoopTop
    \/ Wake
    \/ LoopCheck
    \/ Drain
    \/ Disconnect
    \/ LimiterStart

\* the node answers a request (the accountNextIndex query, signAndSend)
\* or the request fails
Answer(i) == NonceReply(i) \/ SubmitOk(i) \/ SubmitFail(i)

\* some pending request is answered; a run makes finitely many requests,
\* so no request is passed over for ever
AnswerAny == \E i \in Tasks : Answer(i)

Fairness ==
    /\ WF_vars(MainStep)
    /\ WF_vars(AnswerAny)

\* the accepted configurations of the two modes: a duration of one second,
\* or the largest total count, at the highest rate
FairArgv ==
    {a \in ArgvValues :
        /\ \A r \in TpsValues : r <= a.tps
        /\ \/ a.duration = MsPerSec /\ a.totalTxs = Undefined
           \/ a.duration = Undefined /\ a.totalTxs = MaxTotalTxs}

InitFair == SendtxInit(FairArgv) /\ collect = CollectIdle /\ link = LinkIdle

SpecFair == InitFair /\ [][Next]_vars /\ Fairness

\* ---- interrupt ----

\* SIGINT arrives: sendtx.js installs no handler, the process ends at once
Interrupt ==
    /\ pc \notin {"exit0", "exit1", "killed"}
    /\ pc' = "killed"
    /\ UNCHANGED <<conf, connected, ledgerNext, currentNonce, counters,
                   limiter, sched, now, taskv, summary>>

NextInterrupt == Next \/ Interrupt

SpecInterrupt == Init /\ [][NextInterrupt]_vars

\* ---- collect.js: formatting of the validator statistics ----

MaxValidators == 3
MaxBlockCount == 2

Validators == 1..MaxValidators

SortByValues == {"blocks", "validator"}

\* the comparator of the sort; entries with equal counts keep the order of
\* Object.entries, taken to be the order 1, 2, ... of the validators
SortsBefore(stats, sortBy, a, b) ==
    IF sortBy = "validator"
    THEN a < b
    ELSE \/ stats[a].blockCount > stats[b].blockCount
         \/ (stats[a].blockCount = stats[b].blockCount /\ a < b)

\* Object.entries(stats).sort(...)
sortedStats(stats, sortBy) ==
    CHOOSE s \in [1..MaxValidators -> Validators] :
        /\ \A v \in Validators : \E k \in 1..MaxValidators : s[k] = v
        /\ \A j, k \in 1..MaxValidators :
              j < k => SortsBefore(stats, sortBy, s[j], s[k])

\* the predicate of sortedStats.filter
KeepEntry(data, options) == TRUE

\* sortedStats.filter(...): the entries that are printed
filteredStats(stats, options) ==
    SelectSeq(sortedStats(stats, options.sortBy),
              LAMBDA v : KeepEntry(stats[v], options))

CollectInputs ==
    [phase : {"collected"},
     stats : [Validators -> [blockCount : 0..MaxBlockCount]],
     options : [sortBy : SortByValues, minBlocks : 0..(MaxBlockCount + 1)],
     output : {<<>>}]

DefaultArgv == [duration |-> Undefined, totalTxs |-> Undefined, tps |-> 1,
                concurrency |-> 1, nonceAuto |-> TRUE]

InitCollect ==
    SendtxInit({DefaultArgv}) /\ collect \in CollectInputs /\ link = LinkIdle

\* formatValidatorOutput(validatorStats, argv.output, {sortBy, minBlocks})
FormatValidatorOutput ==
    /\ collect.phase = "collected"
    /\ collect' = [collect EXCEPT
                     !.phase = "formatted",
                     !.output = filteredStats(collect.stats, collect.options)]
    /\ UNCHANGED <<link, pc, argv, connected, ledgerNext, currentNonce, counters,
                   limiter, sched, now, taskv, summary>>

NextCollect == FormatValidatorOutput

SpecCollect == InitCollect /\ [][NextCollect]_vars

\* ---- collect.js: the batch loop over the block range ----

MaxBlock == 3
MaxBatchSize == 3

Blocks == 0..MaxBlock

\* the author 'Unknown' of a block whose lookup fails or gives no author
UnknownAuthor == 0

Authors == Validators \cup {UnknownAuthor}

Min(a, b) == IF a <= b THEN a ELSE b

\* variant: the batch runs one block too far
batchEndInclusive(c) == Min(c.i + c.batchSize, c.endBlock)

\* Math.min(i + argv.batchSize - 1, endBlock)
batchEnd(c) == Min(c.i + c.batchSize - 1, c.endBlock)

\* the options of a run and the state before the range is determined;
\* seen records how often each block number has been processed
BatchInputs ==
    [phase : {"range"},
     startBlock : Blocks,
     endOption : {Undefined} \cup Blocks,
     latest : {MaxBlock},
     batchSize : 1..MaxBatchSize,
     endBlock : {Undefined},
     i : {Undefined},
     processedBlocks : {0},
     validatorStats : {[a \in Authors |-> 0]},
     seen : {[b \in Blocks |-> 0]}]

InitBatch ==
    SendtxInit({DefaultArgv}) /\ collect \in BatchInputs /\ link = LinkIdle

\* endBlock = argv.endBlock, or the latest block; the range check; the
\* initialisation of the loop
ResolveRange ==
    /\ collect.phase = "range"
    /\ LET e == IF Truthy(collect.endOption)
                THEN collect.endOption
                ELSE collect.latest
       IN  collect' = IF collect.startBlock > e
                      THEN [collect EXCEPT !.phase = "failed", !.endBlock = e]
                      ELSE [collect EXCEPT !.phase = "batching",
                                           !.endBlock = e,
                                           !.i = collect.startBlock]
    /\ UNCHANGED <<link, pc, argv, connected, ledgerNext, currentNonce, counters,
                   limiter, sched, now, taskv, summary>>

\* the number of blocks of the batch that author a wrote
Authored(author, a, from, to) ==
    Cardinality({b \in from..to : author[b] = a})

\* one pass of the outer loop: the lookups of the batch, each giving an
\* author or 'Unknown', and the counting of the results
BatchStep ==
    /\ collect.phase = "batching"
    /\ collect.i <= collect.endBlock
    /\ LET from == collect.i
           to == batchEnd(collect)
       IN  \E author \in [from..to -> Authors] :
               collect' = [collect EXCEPT
                   !.validatorStats =
                       [a \in Authors |->
                           collect.validatorStats[a]
                               + Authored(author, a, from, to)],
                   !.processedBlocks =
                       collect.processedBlocks + Cardinality(from..to),
                   !.seen =
                       [b \in Blocks |->
                           collect.seen[b]
                               + (IF b \in from..to THEN 1 ELSE 0)],
                   !.i = collect.i + collect.batchSize]
    /\ UNCHANGED <<link, pc, argv, connected, ledgerNext, currentNonce, counters,
                   limiter, sched, now, taskv, summary>>

\* the loop condition fails: data collection completed
BatchDone ==
    /\ collect.phase = "batching"
    /\ collect.i > collect.endBlock
    /\ collect' = [collect EXCEPT !.phase = "counted"]
    /\ UNCHANGED <<link, pc, argv, connected, ledgerNext, currentNonce, counters,
                   limiter, sched, now, taskv, summary>>

NextBatch == ResolveRange \/ BatchStep \/ BatchDone

SpecBatch == InitBatch /\ [][NextBatch]_vars

\* ---- link-node-names.js: concurrent probes of the nodes ----

MaxNodes == 3
MaxKeys == 2
MaxLinkConcurrency == 2

NodeIds == 1..MaxNodes

\* a probe that has not been created
NoProbe == [at |-> "idle", k |-> 0, conn |-> "none", threw |-> FALSE,
            validator |-> Undefined, error |-> FALSE]

\* the nodes file with its number of entries, the options, and the number
\* of candidate keys read from the reference node
LinkInputs ==
    [phase : {"start"},
     nodes : 0..MaxNodes,
     concurrency : 0..MaxLinkConcurrency,
     keys : 0..MaxKeys,
     queue : {<<>>},
     activeCount : {0},
     probe : {[n \in NodeIds |-> NoProbe]},
     results : {<<>>},
     output : {Undefined}]

InitLink ==
    SendtxInit({DefaultArgv}) /\ collect = CollectIdle /\ link \in LinkInputs

\* Math.max(1, argv.concurrency)
LinkLimit(l) == Max(1, l.concurrency)

LinkUnchanged ==
    UNCHANGED <<collect, pc, argv, connected, ledgerNext, currentNonce,
                counters, limiter, sched, now, taskv, summary>>

\* nodes.map(n => limit(() => tryMatchNode(n, keyIndex))): every node is
\* handed to the limiter, in file order
LinkPlan ==
    /\ link.phase = "start"
    /\ link' = [link EXCEPT
           !.phase = "probing",
           !.queue = [n \in 1..link.nodes |-> n],
           !.probe = [n \in NodeIds |->
                         IF n <= link.nodes
                         THEN [NoProbe EXCEPT !.at = "queued"]
                         ELSE NoProbe]]
    /\ LinkUnchanged

\* the limiter starts the probe at the head of its queue: tryMatchNode
\* runs up to the await of ApiPromise.create
LinkStart ==
    /\ link.phase = "probing"
    /\ link.queue # <<>>
    /\ link.activeCount < LinkLimit(link)
    /\ LET n == Head(link.queue) IN
       link' = [link EXCEPT
           !.queue = Tail(link.queue),
           !.activeCount = link.activeCount + 1,
           !.probe[n].at = "connecting"]
    /\ LinkUnchanged

\* ApiPromise.create rejects: the probe returns its error entry
ConnectFailed(n) ==
    /\ link.probe[n].at = "connecting"
    /\ link' = [link EXCEPT
           !.activeCount = link.activeCount - 1,
           !.probe[n].at = "returned",
           !.probe[n].error = TRUE]
    /\ LinkUnchanged

\* variant: without author.hasKey the probe returns at once
ConnectedLeaks(n) ==
    /\ link.probe[n].at = "connecting"
    /\ \/ link' = [link EXCEPT
              !.activeCount = link.activeCount - 1,
              !.probe[n].conn = "open",
              !.probe[n].at = "returned",
              !.probe[n].error = TRUE]
       \/ link' = [link EXCEPT
              !.probe[n].conn = "open",
              !.probe[n].at = IF link.keys = 0 THEN "closing" ELSE "hasKey",
              !.probe[n].k = IF link.keys = 0 THEN 0 ELSE 1]
    /\ LinkUnchanged

\* ApiPromise.create resolves: author.hasKey is missing (error entry), or
\* the loop over the candidate keys begins; with no candidate the result
\* is 'validator: null'.  The finally block then awaits the disconnect.
Connected(n) ==
    /\ link.probe[n].at = "connecting"
    /\ \/ link' = [link EXCEPT
              !.probe[n].conn = "open",
              !.probe[n].at = "closing",
              !.probe[n].error = TRUE]
       \/ link' = [link EXCEPT
              !.probe[n].conn = "open",
              !.probe[n].at = IF link.keys = 0 THEN "closing" ELSE "hasKey",
              !.probe[n].k = IF link.keys = 0 THEN 0 ELSE 1]
    /\ LinkUnchanged

\* the loop goes on to the next candidate, or ends without a match
NextCandidate(l, n) ==
    IF l.probe[n].k < l.keys
    THEN [l EXCEPT !.probe[n].k = l.probe[n].k + 1]
    ELSE [l EXCEPT !.probe[n].at = "closing"]

\* author.hasKey answers true: the probe returns the match
HasKeyTrue(n) ==
    /\ link.probe[n].at = "hasKey"
    /\ link' = [link EXCEPT
           !.probe[n].at = "closing",
           !.probe[n].validator = link.probe[n].k]
    /\ LinkUnchanged

\* author.hasKey answers false
HasKeyFalse(n) ==
    /\ link.probe[n].at = "hasKey"
    /\ link' = NextCandidate(link, n)
    /\ LinkUnchanged

\* author.hasKey fails: the inner catch, and the loop goes on
HasKeyThrows(n) ==
    /\ link.probe[n].at = "hasKey"
    /\ link' = NextCandidate([link EXCEPT !.probe[n].threw = TRUE], n)
    /\ LinkUnchanged

\* finally: api.disconnect() is done, the promise of the probe resolves and
\* the limiter takes its slot back
Disconnected(n) ==
    /\ link.probe[n].at = "closing"
    /\ link' = [link EXCEPT
           !.activeCount = link.activeCount - 1,
           !.probe[n].conn = "closed",
           !.probe[n].at = "returned"]
    /\ LinkUnchanged

\* the entry that tryMatchNode returned for node n
ResultOf(l, n) ==
    [name |-> n, validator |-> l.probe[n].validator, error |-> l.probe[n].error]

\* variant: the results are pushed as the probes complete
AwaitResultAnyOrder ==
    /\ link.phase = "probing"
    /\ Len(link.results) < link.nodes
    /\ \E n \in NodeIds :
          /\ link.probe[n].at = "returned"
          /\ \A k \in 1..Len(link.results) : link.results[k].name # n
          /\ link' = [link EXCEPT
                 !.results = Append(link.results, ResultOf(link, n))]
    /\ LinkUnchanged

\* for (const t of tasks) { const r = await t; results.push(r) }
AwaitResult ==
    /\ link.phase = "probing"
    /\ Len(link.results) < link.nodes
    /\ LET n == Len(link.results) + 1 IN
          /\ link.probe[n].at = "returned"
          /\ link' = [link EXCEPT
                 !.results = Append(link.results, ResultOf(link, n))]
    /\ LinkUnchanged

\* results.filter(r => r.validator) and results.filter(r => !r.validator)
Matched(results) == SelectSeq(results, LAMBDA r : Truthy(r.validator))

Unmatched(results) == SelectSeq(results, LAMBDA r : ~Truthy(r.validator))

\* the mapping file is written
WriteOutput ==
    /\ link.phase = "probing"
    /\ Len(link.results) = link.nodes
    /\ link' = [link EXCEPT
           !.phase = "written",
           !.output = [totalNodes |-> link.nodes,
                       matched |-> Len(Matched(link.results)),
                       unmatched |-> Len(Unmatched(link.results)),
                       nodes |-> link.results]]
    /\ LinkUnchanged

NextLink ==
    \/ LinkPlan
    \/ LinkStart
    \/ \E n \in NodeIds : ConnectFailed(n)
    \/ \E n \in NodeIds : Connected(n)
    \/ \E n \in NodeIds : HasKeyTrue(n)
    \/ \E n \in NodeIds : HasKeyFalse(n)
    \/ \E n \in NodeIds : HasKeyThrows(n)
    \/ \E n \in NodeIds : Disconnected(n)
    \/ AwaitResult
    \/ WriteOutput

SpecLink == InitLink /\ [][NextLink]_vars

(***************************************************************************)
(* Properties                                                              *)
(***************************************************************************)

Started(i) == st[i] \notin {"unissued", "queued"}

AssignedTasks == {i \in Tasks : nonce[i] # Undefined}

NonTerminal == {i \in Tasks : Started(i) /\ outcome[i] = "pending"}

ExceptionOutcomes == {"nonceErr", "buildErr", "submitErr"}

\* C1: in auto nonce mode with initial cursor n0, the task with issuance
\* index i carries the number n0 + i, and the tasks that carry a number
\* are the first M in issuance order: no gap and no repeat.
C1_AutoNonceSequence ==
    argv.nonceAuto =>
        \E n0 \in LedgerNonces :
            /\ \A i \in AssignedTasks : nonce[i] = n0 + i
            /\ AssignedTasks = 0..(Cardinality(AssignedTasks) - 1)

\* two numbers assigned, the later task failed while the earlier one is
\* still in flight
C1_Witness ==
    /\ argv.nonceAuto
    /\ Cardinality(AssignedTasks) >= 2
    /\ outcome[1] = "txError"
    /\ outcome[0] = "pending"

\* C2: the number of tasks that were started by the limiter and have not
\* settled never exceeds the concurrency option.
C2_ConcurrencyBound == Cardinality(NonTerminal) <= argv.concurrency

\* the bound is reached while another task waits
C2_Witness ==
    /\ Cardinality(NonTerminal) = argv.concurrency
    /\ queue # <<>>

\* C3: in the summary, attempted = succeeded + failed.
C3_SummaryBalanced ==
    pc \in {"disconnect", "exit0"} =>
        summary.attempted = summary.succeeded + summary.failed

\* C4: once the promise of a task is settled, a further status callback
\* of that task changes neither its outcome nor the succeeded and failed
\* counters.
C4_CountedOnce ==
    [][\A i \in Tasks :
          (outcome[i] # "pending" /\ txStatus'[i] # txStatus[i]) =>
              /\ outcome'[i] = outcome[i]
              /\ succeeded' = succeeded
              /\ failed' = failed]_vars

\* C5: a status callback that finds the task pending leaves it pending
\* when it is ready / broadcast, makes it a success when it is inBlock and
\* a failure when it is an error; no finalized status is needed.
C5_FirstEventDecides ==
    [][\A i \in Tasks :
          (outcome[i] = "pending" /\ txStatus'[i] # txStatus[i]) =>
              outcome'[i] = CASE txStatus'[i] = "ready" -> "pending"
                              [] txStatus'[i] = "inBlock" -> "inBlock"
                              [] txStatus'[i] = "error" -> "txError"
                              [] OTHER -> "unexpected"]_vars

\* the one task issued is a success on inBlock, with no finalized status
C5_Witness ==
    /\ index = 1
    /\ txStatus[0] = "inBlock"
    /\ outcome[0] = "inBlock"
    /\ succeeded = 1

\* C6: an exception in the nonce query, the build or the submission of a
\* task settles that task as failed, adds exactly one to failed, leaves
\* the main function where it is and leaves every other task untouched;
\* the task is never counted again.
C6_ExceptionContained ==
    [][\A i \in Tasks :
          /\ (outcome[i] = "pending" /\ outcome'[i] \in ExceptionOutcomes) =>
                /\ failed' = failed + 1
                /\ succeeded' = succeeded
                /\ pc' = pc
                /\ index' = index
                /\ st'[i] = "closed"
                /\ \A j \in Tasks \ {i} :
                      outcome'[j] = outcome[j] /\ st'[j] = st[j]
          /\ outcome[i] \in ExceptionOutcomes =>
                outcome'[i] = outcome[i] /\ st'[i] = st[i]
                /\ txStatus'[i] = txStatus[i]]_vars

\* with one slot, the first task threw and the second one was included
C6_Witness ==
    /\ argv.concurrency = 1
    /\ outcome[0] \in ExceptionOutcomes
    /\ outcome[1] = "inBlock"
    /\ failed = 1
    /\ pc # "exit1"

\* C7: the planned total is ceil(duration * tps) when a duration is given
\* and the given count when a count is given.
C7_PlannedTotal ==
    plannedTotal # Undefined =>
        /\ argv.duration # Undefined =>
              plannedTotal = CeilDiv(argv.duration * argv.tps, MsPerSec)
        /\ argv.totalTxs # Undefined => plannedTotal = argv.totalTxs

\* C8: the number of tasks issued never exceeds the planned total, and no
\* step issues a task once the planned total is reached.
C8_IssuedAtMostPlanned ==
    /\ [](IF plannedTotal = Undefined THEN index = 0
                                      ELSE index <= plannedTotal)
    /\ [][index' # index => (index < plannedTotal /\ index' = index + 1)]_vars

\* everything planned is issued and the loop is evaluated once more
C8_Witness ==
    /\ pc = "loopTop"
    /\ plannedTotal = 2
    /\ index = plannedTotal

\* C9: the options are rejected exactly when both or neither of duration
\* and totalTxs are supplied.
C9_ConfigValidation ==
    [][pc = "start" =>
          (pc' = "exit1" <=>
              (argv.duration # Undefined <=> argv.totalTxs # Undefined))]_vars

\* C10: with concurrency 1, a task is started, and gets its number, only
\* when the task before it is settled.
C10_Sequential ==
    argv.concurrency = 1 =>
        \A i \in Tasks :
            (i + 1 \in Tasks /\ (Started(i + 1) \/ nonce[i + 1] # Undefined))
                => outcome[i] # "pending"

\* with one slot, the second task is in flight
C10_Witness ==
    /\ argv.concurrency = 1
    /\ Started(1)
    /\ outcome[1] = "pending"

DonePcs == {"disconnect", "exit0"}

LoopPcs == {"loopTop", "sleeping", "loopCheck"}

\* C11: the summary is produced, and the connection is released, only
\* when issuance has stopped and every issued task is settled.
C11_SummaryAfterDrain ==
    /\ (summary # NoSummary \/ pc \in DonePcs) =>
          /\ AllSettled
          /\ queue = <<>>
          /\ NonTerminal = {}
          /\ summary.attempted = index
    /\ (index > 0 /\ ~connected) => (pc = "exit0" /\ summary # NoSummary)

\* the run is over after two tasks, one of them failed
C11_Witness ==
    /\ pc = "exit0"
    /\ summary.attempted = 2
    /\ summary.failed >= 1

\* C12: no step issues a task when the time since the start has reached
\* the duration.
C12_NoIssueAfterDuration ==
    [][index' # index => ~DurationReached]_vars

FixedCount == argv.totalTxs # Undefined

\* C13: with a total count N, the loop is left only with N tasks issued,
\* the summary reports attempted = N, and in auto mode the tasks carry the
\* numbers n0 .. n0 + N - 1.
C13_FixedCountIssuesAll ==
    FixedCount =>
        /\ pc \in {"drain"} \cup DonePcs => index = argv.totalTxs
        /\ summary # NoSummary =>
              /\ summary.attempted = argv.totalTxs
              /\ argv.nonceAuto =>
                    \E n0 \in LedgerNonces :
                        \A i \in Tasks :
                            i < argv.totalTxs => nonce[i] = n0 + i

\* two tasks asked for, one slot, the run is over with a failure
C13_Witness ==
    /\ argv.totalTxs = 2
    /\ argv.concurrency = 1
    /\ pc = "exit0"
    /\ failed >= 1

DurationMode == Truthy(argv.duration) /\ argv.totalTxs = Undefined

DurationPlanned == CeilDiv(argv.duration * argv.tps, MsPerSec)

AllIncluded == \A i \in Tasks : i < index => outcome[i] = "inBlock"

\* C14: in duration mode every planned task is issued, and when every
\* operation succeeds the summary is planned / planned / 0.
C14_AllPlannedIssued ==
    (DurationMode /\ summary # NoSummary) =>
        /\ summary.attempted = DurationPlanned
        /\ AllIncluded =>
              (summary.succeeded = summary.attempted /\ summary.failed = 0)

\* C15: when the status stream of a pending task ends, the task is
\* recorded as failed and its slot is given back.
C15_StreamEndFails ==
    [][\A i \in Tasks :
          (st[i] = "watching" /\ st'[i] = "closed" /\ outcome[i] = "pending") =>
              /\ outcome'[i] \in ErrorOutcomes
              /\ failed' = failed + 1
              /\ activeCount' = activeCount - 1]_vars

Phase(p) ==
    CASE p \in {"start", "connect", "nonceInit", "plan", "enterLoop"} -> 0
      [] p \in LoopPcs -> 1
      [] p = "drain" -> 2
      [] p \in DonePcs -> 3
      [] OTHER -> 4

\* C19: the scheduler only moves forward through Idle, Issuing, Draining,
\* Done; Draining is entered only when the planned total is issued or the
\* duration has elapsed, Done only when every issued task is settled, and
\* the issuance index does not change in Draining or Done.
C19_SchedulerPhases ==
    [][LET a == Phase(pc)
           b == Phase(pc')
       IN  /\ b # a => ((a < 3 /\ b = a + 1) \/ (a = 0 /\ b = 4))
           /\ (a # 2 /\ b = 2) =>
                 \/ index' >= plannedTotal
                 \/ (Truthy(argv.duration) /\ now' - startTime >= argv.duration)
           /\ (a # 3 /\ b = 3) => AllSettled
           /\ a >= 2 => index' = index]_vars

\* the run went through all phases and the duration ended the issuance
C19_Witness ==
    /\ pc = "exit0"
    /\ index >= 1
    /\ index < plannedTotal

\* C20: every issuance moves the target time by one interval and takes
\* one index, so task i is not issued before start + i * interval, and
\* the number issued is at most one more than the interval boundaries
\* that have passed.
C20_PacingBound ==
    /\ [](pc \in LoopPcs =>
             /\ nextTime = startTime + index * intervalMs(argv)
             /\ index > 0 =>
                   (index - 1) * intervalMs(argv) <= now - startTime)
    /\ [][index' # index =>
             /\ index' = index + 1
             /\ now >= startTime + index * intervalMs(argv)
             /\ nextTime' = nextTime + intervalMs(argv)]_vars

\* after a stall two tasks were issued without a sleep in between
C20_Witness ==
    /\ pc = "loopCheck"
    /\ index = 2
    /\ now >= nextTime
    /\ queue = <<0, 1>>

\* C17: after an interrupt no task is issued, and a run that had issued
\* tasks ends with a summary (partial, or complete after a drain).
C17_InterruptSummary ==
    /\ [](pc = "killed" /\ index > 0 => summary # NoSummary)
    /\ [][pc = "killed" => index' = index]_vars

\* C18: with --min-blocks N the formatted output holds exactly the
\* validators whose block count is at least N.
C18_MinBlocksFilter ==
    collect.phase = "formatted" =>
        {collect.output[k] : k \in 1..Len(collect.output)} =
            {v \in Validators :
                collect.stats[v].blockCount >= collect.options.minBlocks}

\* C21: in auto mode the cursor equals the number read at startup plus
\* the number of tasks issued so far, started or not.
C21_CursorFollowsIssuance ==
    (argv.nonceAuto /\ currentNonce # Undefined) =>
        \E n0 \in LedgerNonces : currentNonce = n0 + index

\* issued tasks that are not settled
Outstanding == {i \in Tasks : i < index /\ outcome[i] = "pending"}

\* C22: the tasks issued and not yet terminal are never more than K.
C22_IssuanceBlocksAtBound ==
    Cardinality(Outstanding) <= argv.concurrency

\* tasks the limiter has started
Running(i) == st[i] \notin {"unissued", "queued"}

\* C23: a running task that becomes terminal gives its slot back, the
\* limiter then starts exactly the task at the head of its queue, and the
\* number of running tasks stays within K.
C23_ReleaseStartsOne ==
    /\ [](activeCount <= argv.concurrency)
    /\ [][/\ \A i \in Tasks :
                (Running(i) /\ outcome[i] = "pending" /\ outcome'[i] # "pending")
                    => activeCount' = activeCount - 1
          /\ (pc \in AwaitPcs /\ StartPending) =>
                /\ queue' = Tail(queue)
                /\ st'[Head(queue)] \notin {"unissued", "queued"}
                /\ activeCount' \in {activeCount, activeCount + 1}]_vars

\* one slot: task 0 failed, and task 1, which had waited, is running
C23_Witness ==
    /\ argv.concurrency = 1
    /\ outcome[0] = "txError"
    /\ st[1] = "watching"
    /\ activeCount = 1

\* C24: in auto mode the account is read once, at startup before any
\* issuance, and no worker queries the ledger; otherwise there is no
\* startup read and every worker makes one query, right before it builds
\* and submits.
C24_NonceReads ==
    [][/\ argv.nonceAuto =>
             /\ \A i \in Tasks : st'[i] # "nonceWait"
             /\ (currentNonce = Undefined /\ currentNonce' # Undefined) =>
                   (pc = "nonceInit" /\ index = 0 /\ currentNonce' = ledgerNext)
             /\ (currentNonce # Undefined) => currentNonce' >= currentNonce
             /\ (pc = "nonceInit" /\ pc' = "plan") => currentNonce' # Undefined
       /\ ~argv.nonceAuto =>
             /\ currentNonce' = Undefined
             /\ \A i \in Tasks :
                   /\ (st[i] = "queued" /\ st'[i] # "queued") =>
                         st'[i] = "nonceWait"
                   /\ (st[i] # "nonceWait" /\ st'[i] = "nonceWait") =>
                         st[i] = "queued"
                   /\ (st[i] = "nonceWait" /\ st'[i] # "nonceWait") =>
                         \/ st'[i] = "closed" /\ nonce'[i] = nonce[i]
                         \/ st'[i] \in {"submitting", "closed"}
                               /\ nonce'[i] = ledgerNext]_vars

\* both workers of a run without auto mode have made their query
C24_Witness ==
    /\ ~argv.nonceAuto
    /\ currentNonce = Undefined
    /\ nonce[0] # Undefined
    /\ nonce[1] # Undefined

\* started, submitted or about to be, and not settled
InFlight(i) == st[i] \in {"submitting", "watching"} /\ outcome[i] = "pending"

\* two tasks in flight at once whose numbers are equal or out of order
NonceClash ==
    \E i, j \in Tasks :
        /\ i < j
        /\ InFlight(i) /\ InFlight(j)
        /\ nonce[j] <= nonce[i]

\* C25: two tasks in flight at once with equal or out-of-order numbers
\* occur in non-auto mode with K >= 2, and only there.
C25_ClashOnlyWithoutAuto ==
    NonceClash => (~argv.nonceAuto /\ argv.concurrency >= 2)

\* two tasks in flight with the same number
C25_Witness ==
    /\ InFlight(0) /\ InFlight(1)
    /\ nonce[0] = nonce[1]

\* a task whose status stream has ended without settling its promise
Hung(i) == st[i] = "closed" /\ outcome[i] = "pending"

\* C28: a submitted task becomes terminal only by an inclusion or error
\* status, never by the passing of time; a task whose stream delivers
\* neither stays pending, keeps its slot, and the summary is not reached
\* while it exists.
C28_NoTaskTimeout ==
    /\ [](/\ activeCount =
                Cardinality({i \in Tasks : Running(i) /\ outcome[i] = "pending"})
          /\ (pc \in DonePcs \/ summary # NoSummary) =>
                \A i \in Tasks : ~Hung(i) /\ ~InFlight(i))
    /\ [][\A i \in Tasks :
             /\ Hung(i) => Hung(i)'
             /\ (st[i] = "watching" /\ outcome[i] = "pending"
                     /\ outcome'[i] # "pending") =>
                   /\ txStatus'[i] \in {"inBlock", "error"}
                   /\ now' = now]_vars

\* the loop is over, the clock has run on, and a hung task holds its slot
C28_Witness ==
    /\ pc = "drain"
    /\ now >= MsPerSec
    /\ \E i \in Tasks : Hung(i)
    /\ activeCount >= 1

\* C29: the summary's succeeded and failed are the numbers of tasks whose
\* outcome is a success and a failure, and no counter ever decreases.
C29_CountersMatchOutcomes ==
    /\ [](summary # NoSummary =>
             /\ summary.succeeded =
                   Cardinality({i \in Tasks : outcome[i] = "inBlock"})
             /\ summary.failed =
                   Cardinality({i \in Tasks : outcome[i] \in ErrorOutcomes}))
    /\ [][sent' >= sent /\ succeeded' >= succeeded /\ failed' >= failed]_vars

\* C30: sent = succeeded + failed in every state; a step that counts a
\* success or a failure counts it as sent in the same step, and sent
\* changes in no other step.
C30_SentIsSum ==
    /\ [](sent = succeeded + failed)
    /\ [][/\ sent' - sent = (succeeded' - succeeded) + (failed' - failed)
          /\ succeeded' >= succeeded
          /\ failed' >= failed]_vars

\* a success and a failure have been counted
C30_Witness ==
    /\ succeeded >= 1
    /\ failed >= 1
    /\ sent = 2

\* every running task eventually reaches a terminal state: from some
\* moment on no started task is left unsettled
RunningTasksTerminate ==
    <>[](\A i \in Tasks : ~(Running(i) /\ outcome[i] = "pending"))

\* C26: provided every running task eventually reaches a terminal state,
\* every issued task eventually starts.
C26_NoStarvation ==
    RunningTasksTerminate =>
        \A i \in Tasks : (st[i] = "queued") ~> Running(i)

\* a task that waited for the only slot has started
C26_Witness ==
    /\ argv.concurrency = 1
    /\ outcome[0] = "inBlock"
    /\ st[1] = "submitting"
    /\ activeCount = 1

\* every submitted operation eventually receives an inclusion or an
\* error: from some moment on no submitted task is left undecided
SubmittedTasksDecided ==
    <>[](\A i \in Tasks :
            ~(st[i] \in {"watching", "closed"} /\ outcome[i] = "pending"))

\* C27: under fair scheduling, if every submitted operation eventually
\* receives an inclusion or an error (and every earlier failure is
\* raised), the run ends, and a run that passed startup ends with the
\* summary, in duration mode and in fixed-count mode.
C27_Termination ==
    SubmittedTasksDecided =>
        /\ <>(pc \in {"exit0", "exit1"})
        /\ (pc = "plan") ~> (pc = "exit0" /\ summary # NoSummary)

\* a run in duration mode has ended with both tasks decided
C27_Witness ==
    /\ DurationMode
    /\ pc = "exit0"
    /\ summary.attempted = 2
    /\ summary.succeeded >= 1
    /\ summary.failed >= 1

\* C31: in auto mode the cursor equals the number read at startup plus the
\* number of tasks started, which is at most that number plus the tasks
\* issued; it never decreases, and only the start of a task writes it.
C31_CursorCountsStarts ==
    /\ []((argv.nonceAuto /\ currentNonce # Undefined) =>
             \E n0 \in LedgerNonces :
                 /\ currentNonce =
                       n0 + Cardinality({i \in Tasks : Running(i)})
                 /\ currentNonce <= n0 + index)
    /\ [][(argv.nonceAuto /\ currentNonce # Undefined
              /\ currentNonce' # currentNonce) =>
             /\ currentNonce' = currentNonce + 1
             /\ queue # <<>>
             /\ queue' = Tail(queue)
             /\ ~Running(Head(queue))
             /\ st'[Head(queue)] \notin {"unissued", "queued"}]_vars

\* two tasks issued, one started: the cursor has moved once
C31_Witness ==
    /\ argv.nonceAuto
    /\ index = 2
    /\ st[1] = "queued"
    /\ Running(0)
    /\ currentNonce = 6

\* C32: in auto mode no number is used twice: a task whose build throws
\* keeps its number n0 + i, that number goes to no other task and is not
\* submitted, and every task j that is submitted carries n0 + j.
C32_NumberNeverReused ==
    /\ [](argv.nonceAuto =>
             \E n0 \in LedgerNonces :
                 /\ \A i \in Tasks :
                       /\ outcome[i] = "buildErr" =>
                             (nonce[i] = n0 + i /\ st[i] = "closed")
                       /\ st[i] \in {"submitting", "watching"} =>
                             nonce[i] = n0 + i
                 /\ \A i, j \in Tasks :
                       (i # j /\ nonce[i] # Undefined) => nonce[j] # nonce[i])
    /\ [][argv.nonceAuto =>
             \A i \in Tasks :
                 nonce[i] # Undefined => nonce'[i] = nonce[i]]_vars

\* the build of task 0 threw and task 1 is submitted with the next number
C32_Witness ==
    /\ argv.nonceAuto
    /\ outcome[0] = "buildErr"
    /\ nonce[0] = 5
    /\ st[1] = "watching"
    /\ nonce[1] = 6

\* every issued task is started, reaches an outcome and is in the summary:
\* from some moment on no issued task is left short of that
IssuedTasksComplete ==
    /\ <>[](\A i \in Tasks :
               (i < index) =>
                   (Running(i) /\ outcome[i] # "pending"
                       /\ summary # NoSummary))
    /\ [](summary # NoSummary =>
             /\ summary.attempted = index
             /\ summary.sent >= index)

\* C33: every issued task, also one that waits in the limiter when
\* issuance stops, is eventually started, reaches an outcome and is counted
\* in the summary.
C33_IssuedTasksAlwaysComplete == IssuedTasksComplete

\* C33 amended: provided every submitted operation is eventually decided,
\* every issued task, also one that waits in the limiter when issuance
\* stops, is started, reaches an outcome and is counted in the summary.
C33_IssuedTasksComplete == SubmittedTasksDecided => IssuedTasksComplete

\* the duration has ended the issuance while task 1 waits in the limiter
C33_Witness ==
    /\ DurationMode
    /\ pc = "drain"
    /\ st[1] = "queued"
    /\ outcome[0] = "pending"

RECURSIVE SumOver(_, _)
\* the sum of f over the set S
SumOver(f, S) ==
    IF S = {} THEN 0
    ELSE LET x == CHOOSE y \in S : TRUE
         IN  f[x] + SumOver(f, S \ {x})

\* C34: when the collection completes, every block number of the range
\* has been processed exactly once and no other, processedBlocks is
\* endBlock - startBlock + 1, and the block counts of all authors,
\* 'Unknown' included, sum to that total.
C34_EveryBlockOnce ==
    /\ collect.phase \in {"batching", "counted"} =>
          \A b \in Blocks : collect.seen[b] <= 1
    /\ collect.phase = "counted" =>
          /\ collect.processedBlocks =
                collect.endBlock - collect.startBlock + 1
          /\ SumOver(collect.validatorStats, Authors) =
                collect.processedBlocks
          /\ \A b \in Blocks :
                collect.seen[b] =
                    IF collect.startBlock <= b /\ b <= collect.endBlock
                    THEN 1 ELSE 0

\* four blocks in batches of three, one lookup failed
C34_Witness ==
    /\ collect.phase = "counted"
    /\ collect.batchSize = 3
    /\ collect.processedBlocks = 4
    /\ collect.validatorStats[UnknownAuthor] = 1

\* C35: whatever the order in which the probes complete, the result list
\* holds one entry per node of the nodes file, in file order, and in the
\* written mapping matched + unmatched = totalNodes.
C35_ResultsInFileOrder ==
    /\ link.phase \in {"probing", "written"} =>
          \A k \in 1..Len(link.results) : link.results[k].name = k
    /\ link.phase = "written" =>
          /\ Len(link.output.nodes) = link.nodes
          /\ link.output.totalNodes = link.nodes
          /\ link.output.matched + link.output.unmatched
                = link.output.totalNodes

\* the second node's probe returned first and the first node's is running
C35_Witness ==
    /\ link.phase = "probing"
    /\ link.nodes = MaxNodes
    /\ link.probe[2].at = "returned"
    /\ link.probe[1].at = "hasKey"
    /\ link.results = <<>>

\* node connections that are open
OpenConnections ==
    {n \in NodeIds : link.phase # "idle" /\ link.probe[n].conn = "open"}

\* C36: at most max(1, concurrency) node connections are open at a time,
\* and a connection that was opened is disconnected before its probe
\* returns, with a match, without one, without author.hasKey, or after
\* failing hasKey calls.
C36_ConnectionsBoundedAndClosed ==
    link.phase \in {"probing", "written"} =>
        /\ Cardinality(OpenConnections) <= Max(1, link.concurrency)
        /\ \A n \in NodeIds :
              link.probe[n].at = "returned" => link.probe[n].conn # "open"
        /\ link.phase = "written" => OpenConnections = {}

\* a probe whose hasKey call failed has returned with its connection closed
\* while another connection is open
C36_Witness ==
    /\ link.phase = "probing"
    /\ link.probe[1].at = "returned"
    /\ link.probe[1].threw
    /\ link.probe[1].conn = "closed"
    /\ link.probe[2].conn = "open"
====
